---- MODULE Spec2Model ----
(***************************************************************************)
(* Exact Fibonacci engines (iterative fast doubling, matrix               *)
(* exponentiation) and the OpenMP range scheduler of the fastfib bindings  *)
(* and the standalone cpp_version programs.                                *)
(*                                                                         *)
(* mpz_class values are modelled by TLA+ integers (exact, unbounded in     *)
(* the source); the bounds below keep every value inside TLC's integers.   *)
(***************************************************************************)
EXTENDS Integers, Sequences, FiniteSets, TLC

VARIABLES
    fd,            \* call frame of the fast-doubling engine
    fdb,           \* call frame of a fast-doubling call running in another thread
    mx,            \* call frame of the matrix engine
    prog,          \* the process: which binding module or program is running
    rg,            \* call frame of a range operation
    nthreads_var,  \* OpenMP nthreads-var ICV (omp_set_num_threads / omp_get_max_threads)
    results,       \* std::vector<std::string> results of the running range call
    next_iter,     \* first loop iteration that no thread has taken yet (dynamic schedule)
    wk,            \* per team thread: where it is in the parallel loop
    assigned,      \* per slot: the threads the schedule has handed iteration i to
    writers        \* per slot: the threads that have assigned results[i], in order

vars == <<fd, fdb, mx, prog, rg, nthreads_var, results, next_iter, wk, assigned, writers>>

\* everything a range operation touches
rangeVars == <<prog, rg, nthreads_var, results, next_iter, wk, assigned, writers>>

----------------------------------------------------------------------------
(* Bounds of the model *)

\* largest index n handed to a single-value engine
MaxN == 30
\* negative indices -MaxNeg .. -1 are tried as well
MaxNeg == 3
\* range requests take start in -1 .. MaxStart and end in -1 .. MaxEnd
MaxStart == 1
MaxEnd == 20
\* thread counts asked for, and the cores of the machine
MaxThreads == 2
\* the counting loops take start in -1 .. 0 and end in -1 .. MaxCountEnd, and
\* end = ProgramChunk
MaxCountEnd == 2
\* largest index of the single-value calls that run side by side
MaxSharedN == 3
\* the scheduled runs fill buffers for end in 0 .. MaxLiveEnd
MaxLiveEnd == 10
\* long long is modelled with IndexBits bits
IndexBits == 4

----------------------------------------------------------------------------
(* The defining recurrence F(0)=0, F(1)=1, F(n+2)=F(n+1)+F(n) *)

RECURSIVE FibFrom(_, _, _)
FibFrom(k, a, b) == IF k = 0 THEN a ELSE FibFrom(k - 1, b, a + b)

\* F(n) for n >= 0
F(n) == FibFrom(n, 0, 1)

----------------------------------------------------------------------------
(* mpz_class::get_str(): the base-10 digits of an integer *)

Digit(d) == <<"0", "1", "2", "3", "4", "5", "6", "7", "8", "9">>[d + 1]

RECURSIVE get_str(_)
get_str(x) ==
    IF x < 0 THEN <<"-">> \o get_str(-x)
    ELSE IF x < 10 THEN <<Digit(x)>>
    ELSE get_str(x \div 10) \o <<Digit(x % 10)>>

----------------------------------------------------------------------------
(* Fast doubling: fibonacci_fast_doubling_iterative and its callers *)

\* Bit reading the position above i: (n >> (i + 1)) & 1
Bit_above(n, i) == (n \div 2 ^ (i + 1)) % 2

\* (n >> i) & 1 for n >= 0
Bit(n, i) == (n \div (2 ^ i)) % 2

\* FDStep with 2 * fk1 + fk for 2 * fk1 - fk
FDStep_plus(fk, fk1, bit) ==
    LET f2k  == fk * (2 * fk1 + fk)
        f2k1 == fk1 * fk1 + fk * fk
    IN  IF bit = 1 THEN <<f2k1, f2k + f2k1>> ELSE <<f2k, f2k1>>

\* FDStep with fk - 2 * fk1 for 2 * fk1 - fk
FDStep_reversed(fk, fk1, bit) ==
    LET f2k  == fk * (fk - 2 * fk1)
        f2k1 == fk1 * fk1 + fk * fk
    IN  IF bit = 1 THEN <<f2k1, f2k + f2k1>> ELSE <<f2k, f2k1>>

\* one pass of the loop body: from (F(k), F(k+1)) to the pair for 2k or 2k+1
FDStep(fk, fk1, bit) ==
    LET f2k  == fk * (2 * fk1 - fk)
        f2k1 == fk1 * fk1 + fk * fk
    IN  IF bit = 1 THEN <<f2k1, f2k + f2k1>> ELSE <<f2k, f2k1>>

\* BitLength with while (temp > 1)
RECURSIVE BitLength_short(_)
BitLength_short(temp) == IF temp > 1 THEN 1 + BitLength_short(temp \div 2) ELSE 0

\* while (temp > 0) { bit_length++; temp >>= 1; }
RECURSIVE BitLength(_)
BitLength(temp) == IF temp > 0 THEN 1 + BitLength(temp \div 2) ELSE 0

\* for (int i = bit_length - 1; i >= 0; i--): each pass reads the pair the
\* pass before it left
RECURSIVE FDLoop(_, _, _)
FDLoop(n, i, p) ==
    IF i >= 0
      THEN LET pass[q \in Int \X Int] ==
                   FDLoop(n, i - 1, FDStep(q[1], q[2], Bit(n, i)))
           IN  pass[p]
    ELSE p

\* the pair the function returns, as one value
fibonacci_fast_doubling_iterative(n) ==
    IF n = 0 THEN <<0, 1>> ELSE FDLoop(n, BitLength(n) - 1, <<0, 1>>)

\* n / 2 of a long long: the quotient rounded towards zero
HalfOf(n) == IF n >= 0 THEN n \div 2 ELSE -((-n) \div 2)

\* fibonacci_fast_doubling_helper returning {c, d} for every n
RECURSIVE fibonacci_fast_doubling_helper_even(_)
fibonacci_fast_doubling_helper_even(n) ==
    IF n = 0 THEN <<0, 1>>
    ELSE LET body[q \in Int \X Int] ==
                 LET fk  == q[1]
                     fk1 == q[2]
                     c   == fk * (2 * fk1 - fk)
                     d   == fk1 * fk1 + fk * fk
                 IN  <<c, d>>
         IN  body[fibonacci_fast_doubling_helper_even(HalfOf(n))]

\* the recursive form: the pair of n / 2 first, then c, d and the return
\* that n % 2 selects
RECURSIVE fibonacci_fast_doubling_helper(_)
fibonacci_fast_doubling_helper(n) ==
    IF n = 0 THEN <<0, 1>>
    ELSE LET body[q \in Int \X Int] ==
                 LET fk  == q[1]
                     fk1 == q[2]
                     c   == fk * (2 * fk1 - fk)
                     d   == fk1 * fk1 + fk * fk
                 IN  IF n % 2 = 0 THEN <<c, d>> ELSE <<d, c + d>>
         IN  body[fibonacci_fast_doubling_helper(HalfOf(n))]

\* the calls of fibonacci_fast_doubling_helper nested under the first one
RECURSIVE HelperDepth(_)
HelperDepth(n) == IF n = 0 THEN 0 ELSE 1 + HelperDepth(HalfOf(n))

\* an outcome of a call: a returned value or a thrown exception
Returned(v) == [ok |-> TRUE, val |-> v]
Thrown(e) == [ok |-> FALSE, err |-> e]

\* fibonacci_exact_gmp of the fast-doubling bindings
fibonacci_exact_gmp(n) ==
    IF n < 0 THEN Thrown("invalid_argument")
    ELSE Returned(fibonacci_fast_doubling_iterative(n)[1])

\* fibonacci_exact of the standalone fast-doubling program
fibonacci_exact(n) ==
    IF n < 0 THEN Thrown("invalid_argument")
    ELSE Returned(fibonacci_fast_doubling_iterative(n)[1])

(* The same code run statement by statement in the frame fd. *)

FDEntries == {"fibonacci_fast_doubling_iterative", "fibonacci_exact",
              "fibonacci_exact_gmp", "fibonacci", "fibonacci_digit_count"}

\* FDGuarded with the check of fibonacci_exact left out
FDGuarded_binding_only(entry) ==
    entry \in {"fibonacci_exact_gmp", "fibonacci", "fibonacci_digit_count"}

\* the entry points that check n < 0 before anything else
FDGuarded(entry) ==
    entry \in {"fibonacci_exact", "fibonacci_exact_gmp", "fibonacci",
               "fibonacci_digit_count"}

\* GMP's mpz_sizeinbase(x, 10) for x > 0: one more than the whole part of
\* (bits of x) * log10(2), which is the number of digits or one more
mpz_sizeinbase10(x) == (BitLength(x) * 30103) \div 100000 + 1

FDIdle == [pc |-> "idle", entry |-> "none", n |-> 0, temp |-> 0, bit_length |-> 0,
           i |-> 0, fk |-> 0, fk1 |-> 0, steps |-> 0, ret |-> <<>>, err |-> "none"]

\* the call: the n < 0 guard of the entry point, then the n == 0 return or
\* the set-up of the bit-length loop
FDCallFrame(entry, n) ==
    IF FDGuarded(entry) /\ n < 0
      THEN [FDIdle EXCEPT !.pc = "thrown", !.entry = entry, !.n = n,
                          !.err = "invalid_argument"]
    ELSE IF n = 0
      THEN [FDIdle EXCEPT !.pc = "exit", !.entry = entry, !.n = n,
                          !.fk = 0, !.fk1 = 1]
    ELSE [FDIdle EXCEPT !.pc = "bits", !.entry = entry, !.n = n,
                        !.temp = n, !.bit_length = 0]

\* one test of while (temp > 0), with the body or with the set-up of the for loop
FDBitsFrame(f) ==
    IF f.temp > 0
      THEN [f EXCEPT !.bit_length = @ + 1, !.temp = @ \div 2]
    ELSE [f EXCEPT !.pc = "loop", !.fk = 0, !.fk1 = 1, !.i = f.bit_length - 1]

\* FDLoopFrame with one static pair that every call works on
FDLoopFrame_static(f) ==
    IF f.i >= 0
      THEN LET p == FDStep(fd.fk, fd.fk1, Bit(f.n, f.i))
           IN  [f EXCEPT !.fk = p[1], !.fk1 = p[2], !.i = @ - 1, !.steps = @ + 1]
    ELSE [f EXCEPT !.pc = "exit"]

\* FDLoopFrame with fk and fk1 declared inside the loop body
FDLoopFrame_restart(f) ==
    IF f.i >= 0
      THEN LET p == FDStep(0, 1, Bit(f.n, f.i))
           IN  [f EXCEPT !.fk = p[1], !.fk1 = p[2], !.i = @ - 1, !.steps = @ + 1]
    ELSE [f EXCEPT !.pc = "exit"]

\* one test of i >= 0, with the loop body or with the exit of the loop
FDLoopFrame(f) ==
    IF f.i >= 0
      THEN LET p == FDStep(f.fk, f.fk1, Bit(f.n, f.i))
           IN  [f EXCEPT !.fk = p[1], !.fk1 = p[2], !.i = @ - 1, !.steps = @ + 1]
    ELSE [f EXCEPT !.pc = "exit"]

\* return {fk, fk1} and what the entry point makes of it (fibonacci_digit_count
\* returns its 1 for n == 0 without a call of the engine)
FDReturnFrame(f) ==
    [f EXCEPT !.pc = "done",
              !.ret = IF f.entry = "fibonacci_fast_doubling_iterative"
                        THEN << <<f.fk, f.fk1>> >>
                      ELSE IF f.entry = "fibonacci"
                        THEN <<get_str(f.fk)>>
                      ELSE IF f.entry = "fibonacci_digit_count"
                        THEN <<IF f.n = 0 THEN 1 ELSE mpz_sizeinbase10(f.fk)>>
                      ELSE <<f.fk>>]

fd_call(entry, n) ==
    /\ fd.pc = "idle"
    /\ fd' = FDCallFrame(entry, n)
    /\ UNCHANGED <<fdb, mx, rangeVars>>

fd_bits ==
    /\ fd.pc = "bits"
    /\ fd' = FDBitsFrame(fd)
    /\ UNCHANGED <<fdb, mx, rangeVars>>

fd_loop ==
    /\ fd.pc = "loop"
    /\ fd' = FDLoopFrame(fd)
    /\ UNCHANGED <<fdb, mx, rangeVars>>

fd_return ==
    /\ fd.pc = "exit"
    /\ fd' = FDReturnFrame(fd)
    /\ UNCHANGED <<fdb, mx, rangeVars>>

\* a call of the recursive form, run to its return {fk, fk1}; steps is the
\* depth the recursion reached
fd_call_helper(n) ==
    /\ fd.pc = "idle"
    /\ \E pair \in {fibonacci_fast_doubling_helper(n)} :
          fd' = [FDIdle EXCEPT !.pc = "done",
                               !.entry = "fibonacci_fast_doubling_helper",
                               !.n = n,
                               !.fk = pair[1],
                               !.fk1 = pair[2],
                               !.steps = HelperDepth(n),
                               !.ret = <<pair>>]
    /\ UNCHANGED <<fdb, mx, rangeVars>>

\* the caller takes the value or the exception; the frame is gone
fd_end ==
    /\ fd.pc \in {"done", "thrown"}
    /\ fd' = FDIdle
    /\ UNCHANGED <<fdb, mx, rangeVars>>

\* the same steps of a call that another thread makes
fdb_call(entry, n) ==
    /\ fdb.pc = "idle"
    /\ fdb' = FDCallFrame(entry, n)
    /\ UNCHANGED <<fd, mx, rangeVars>>

fdb_bits ==
    /\ fdb.pc = "bits"
    /\ fdb' = FDBitsFrame(fdb)
    /\ UNCHANGED <<fd, mx, rangeVars>>

fdb_loop ==
    /\ fdb.pc = "loop"
    /\ fdb' = FDLoopFrame(fdb)
    /\ UNCHANGED <<fd, mx, rangeVars>>

fdb_return ==
    /\ fdb.pc = "exit"
    /\ fdb' = FDReturnFrame(fdb)
    /\ UNCHANGED <<fd, mx, rangeVars>>

fdb_end ==
    /\ fdb.pc \in {"done", "thrown"}
    /\ fdb' = FDIdle
    /\ UNCHANGED <<fd, mx, rangeVars>>

----------------------------------------------------------------------------
(* Matrix exponentiation: matrix_mult, matrix_pow and fibonacci_exact *)

Matrix2x2(a_, b_, c_, d_) == [a |-> a_, b |-> b_, c |-> c_, d |-> d_]

Identity == Matrix2x2(1, 0, 0, 1)

\* Matrix2x2 base(1, 1, 1, 0)
FibBase == Matrix2x2(1, 1, 1, 0)

\* matrix_mult with B.c for B.d in result.b
matrix_mult_typo(A, B) ==
    Matrix2x2(A.a * B.a + A.b * B.c,
              A.a * B.b + A.b * B.c,
              A.c * B.a + A.d * B.c,
              A.c * B.b + A.d * B.d)

matrix_mult(A, B) ==
    Matrix2x2(A.a * B.a + A.b * B.c,
              A.a * B.b + A.b * B.d,
              A.c * B.a + A.d * B.c,
              A.c * B.b + A.d * B.d)

\* the while (n > 0) loop of matrix_pow
RECURSIVE MatPowLoop(_, _, _)
MatPowLoop(result, base, n) ==
    IF n > 0
      THEN MatPowLoop(IF n % 2 = 1 THEN matrix_mult(result, base) ELSE result,
                      matrix_mult(base, base), n \div 2)
    ELSE result

matrix_pow(base, n) ==
    IF n = 0 THEN Identity
    ELSE IF n = 1 THEN base
    ELSE MatPowLoop(Identity, base, n)

\* fibonacci_exact of fib_stairs.cpp and verify.cpp
fibonacci_exact_matrix(n) ==
    IF n = 0 THEN 0
    ELSE IF n = 1 THEN 1
    ELSE IF n = 2 THEN 1
    ELSE matrix_pow(FibBase, n - 1).a

\* fibonacci_exact_gmp of the matrix bindings
fibonacci_exact_gmp_matrix(n) ==
    IF n = 0 THEN 0
    ELSE IF n = 1 THEN 1
    ELSE IF n = 2 THEN 1
    ELSE matrix_pow(FibBase, n - 1).a

\* the linear reference of verify.cpp
RECURSIVE IterLoop(_, _, _, _)
IterLoop(i, n, a, b) == IF i <= n THEN IterLoop(i + 1, n, b, a + b) ELSE b

fibonacci_iterative(n) ==
    IF n = 0 THEN 0
    ELSE IF n = 1 THEN 1
    ELSE IterLoop(2, n, 0, 1)

(* The same code run statement by statement in the frame mx. *)

MXEntries == {"matrix_pow", "fib_stairs.fibonacci_exact",
              "matrix_backup.fibonacci_exact_gmp", "matrix_backup.fibonacci"}

\* of the matrix entry points only the binding fibonacci() checks n < 0
MXGuarded(entry) == entry = "matrix_backup.fibonacci"

MXIdle == [pc |-> "idle", entry |-> "none", n |-> 0, e |-> 0, result |-> Identity,
           base |-> Identity, steps |-> 0, ret |-> <<>>, err |-> "none"]

\* what the entry point returns once matrix_pow has returned the matrix m
MXValue(entry, m) ==
    IF entry = "matrix_pow" THEN <<m>>
    ELSE IF entry = "matrix_backup.fibonacci" THEN <<get_str(m.a)>>
    ELSE <<m.a>>

\* what the entry point returns for a base case v
MXBase(entry, v) ==
    IF entry = "matrix_backup.fibonacci" THEN <<get_str(v)>> ELSE <<v>>

\* matrix_pow(base, e) up to its loop: the two early returns or result = Identity
mx_enter_pow(frame, e) ==
    IF e = 0
      THEN [frame EXCEPT !.pc = "done", !.e = e, !.ret = MXValue(frame.entry, Identity)]
    ELSE IF e = 1
      THEN [frame EXCEPT !.pc = "done", !.e = e, !.ret = MXValue(frame.entry, frame.base)]
    ELSE [frame EXCEPT !.pc = "loop", !.e = e, !.result = Identity]

\* the call: the guard of the entry point, the base cases, the call of matrix_pow
mx_call(entry, n) ==
    /\ mx.pc = "idle"
    /\ LET frame == [MXIdle EXCEPT !.entry = entry, !.n = n, !.base = FibBase]
       IN  mx' = IF entry = "matrix_pow" THEN mx_enter_pow(frame, n)
                 ELSE IF MXGuarded(entry) /\ n < 0
                   THEN [frame EXCEPT !.pc = "thrown", !.err = "invalid_argument"]
                 ELSE IF n \in {0, 1, 2}
                   THEN [frame EXCEPT !.pc = "done",
                                      !.ret = MXBase(entry, IF n = 0 THEN 0 ELSE 1)]
                 ELSE mx_enter_pow(frame, n - 1)
    /\ UNCHANGED <<fd, fdb, rangeVars>>

\* mx_loop with base squared before result takes it
mx_loop_square_first ==
    /\ mx.pc = "loop"
    /\ mx' = IF mx.e > 0
               THEN [mx EXCEPT !.result = IF mx.e % 2 = 1
                                            THEN matrix_mult(mx.result,
                                                             matrix_mult(mx.base, mx.base))
                                          ELSE mx.result,
                               !.base = matrix_mult(mx.base, mx.base),
                               !.e = @ \div 2,
                               !.steps = @ + 1]
             ELSE [mx EXCEPT !.pc = "done", !.ret = MXValue(mx.entry, mx.result)]
    /\ UNCHANGED <<fd, fdb, rangeVars>>

\* one test of while (n > 0), with the loop body or with return result
mx_loop ==
    /\ mx.pc = "loop"
    /\ mx' = IF mx.e > 0
               THEN [mx EXCEPT !.result = IF mx.e % 2 = 1
                                            THEN matrix_mult(mx.result, mx.base)
                                          ELSE mx.result,
                               !.base = matrix_mult(mx.base, mx.base),
                               !.e = @ \div 2,
                               !.steps = @ + 1]
             ELSE [mx EXCEPT !.pc = "done", !.ret = MXValue(mx.entry, mx.result)]
    /\ UNCHANGED <<fd, fdb, rangeVars>>

\* the caller takes the value or the exception; the frame is gone
mx_end ==
    /\ mx.pc \in {"done", "thrown"}
    /\ mx' = MXIdle
    /\ UNCHANGED <<fd, fdb, rangeVars>>

----------------------------------------------------------------------------
(* Range operations: fibonacci_range and its variants in the bindings,     *)
(* compute_and_store_fibonacci, compute_fibonacci_range_sum and            *)
(* compute_fibonacci_range_fast in the standalone programs.                *)

\* schedule(dynamic, 10) of the bindings, schedule(dynamic, 100) of the programs
BindingChunk == 10
ProgramChunk == 100

\* the two binding modules (fast doubling, matrix) and the two standalone programs
Programs == {"_fastfib_fd", "_fastfib", "fib_stairs_fastdoubling", "fib_stairs"}

\* the range operations each one has
RangeFns(p) ==
    IF p = "_fastfib_fd"
      THEN {"fibonacci_range", "fibonacci_range_int", "fibonacci_array"}
    ELSE IF p = "_fastfib" THEN {"fibonacci_range"}
    ELSE {"compute_and_store_fibonacci", "compute_fibonacci_range_sum",
          "compute_fibonacci_range_fast"}

\* the operations that fill the results vector; the other two only count
StoresResults(fn) ==
    fn \in {"fibonacci_range", "fibonacci_range_int", "fibonacci_array",
            "compute_and_store_fibonacci"}

\* HasCritical with the critical section in every loop body
HasCritical_all(fn) == TRUE

\* the loop body with a #pragma omp critical in it
HasCritical(fn) == fn = "compute_fibonacci_range_sum"

IsBinding(p) == p \in {"_fastfib_fd", "_fastfib"}

\* the num_threads argument of the bindings (default -1); the programs have none
ThreadArgs(p) == IF IsBinding(p) THEN -1 .. MaxThreads ELSE {-1}

Chunk(p) == IF IsBinding(p) THEN BindingChunk ELSE ProgramChunk

\* the engine the loop body calls for index n
Engine(p, n) ==
    IF p = "_fastfib_fd" THEN fibonacci_exact_gmp(n)
    ELSE IF p = "_fastfib" THEN Returned(fibonacci_exact_gmp_matrix(n))
    ELSE IF p = "fib_stairs" THEN Returned(fibonacci_exact_matrix(n))
    ELSE fibonacci_exact(n)

\* whether that call throws: the n < 0 check of the fast-doubling
\* fibonacci_exact and fibonacci_exact_gmp, which the matrix ones do not have
EngineThrows(p, n) == p \in {"_fastfib_fd", "fib_stairs_fastdoubling"} /\ n < 0

\* SlotValue with the index one too far
SlotValue_next(p, n) == get_str(Engine(p, n + 1).val)

\* the string the loop body stores for index n: fib.get_str()
SlotValue(p, n) == get_str(Engine(p, n).val)

\* omp_get_max_threads(): the nthreads-var ICV
omp_get_max_threads == nthreads_var

\* the if / else around omp_set_num_threads
SetThreads(num_threads) ==
    IF num_threads > 0 THEN num_threads ELSE omp_get_max_threads

\* PyLong_FromString(str, nullptr, 10) on the digits get_str produced
DigitValue(c) == CHOOSE d \in 0 .. 9 : Digit(d) = c

RECURSIVE PyLong_FromString(_)
PyLong_FromString(str) ==
    IF str = <<>> THEN 0
    ELSE 10 * PyLong_FromString(SubSeq(str, 1, Len(str) - 1))
            + DigitValue(str[Len(str)])

\* what the operation hands back once the loop is over
RangeValue(fn, res) ==
    IF fn \in {"fibonacci_range_int", "fibonacci_array"}
      THEN [i \in 1 .. Len(res) |-> PyLong_FromString(res[i])]
    ELSE res

Min(a, b) == IF a < b THEN a ELSE b

\* ChunkOf with chunks that share their boundary iteration
ChunkOf_overlap(next, total, chunk) ==
    [lo |-> IF next > 0 THEN next - 1 ELSE next, hi |-> Min(next + chunk, total)]

\* the next chunk of the dynamic schedule: iterations lo .. hi - 1
ChunkOf(next, total, chunk) == [lo |-> next, hi |-> Min(next + chunk, total)]

\* InvalidRange without the start > end check
InvalidRange_no_order(start, end) == start < 0 \/ end < 0

\* Total without the + 1
Total_short(start, end) == end - start

\* const long long total = end - start + 1
Total(start, end) == end - start + 1

\* the two checks that open every range operation of the bindings
InvalidRange(start, end) == (start < 0 \/ end < 0) \/ start > end

\* the number of passes of for (n = start_n; n <= end_n; n++)
LoopCount(start, end) == IF end < start THEN 0 ELSE end - start + 1

\* a thread of the team: where it is, its iterations i .. hi - 1, its local_count
WorkerStart == [st |-> "ready", i |-> 0, hi |-> 0, local_count |-> 0]

\* crit is the thread inside the critical section (0: none)
RGIdle == [pc |-> "idle", fn |-> "none", start |-> 0, end |-> 0, num_threads |-> 0,
           total |-> 0, team |-> 0, allocated |-> FALSE, crit |-> 0,
           total_computed |-> 0, cancel |-> FALSE, ret |-> <<>>, err |-> "none"]

\* a call up to the start of the parallel region: validation, the thread
\* setting, the allocation of results for the total the subtraction gave
RangeCall(fn, start, end, num_threads, total) ==
    /\ rg.pc = "idle"
    /\ fn \in RangeFns(prog)
    /\ num_threads \in ThreadArgs(prog)
    /\ LET frame == [RGIdle EXCEPT !.fn = fn, !.start = start, !.end = end,
                                   !.num_threads = num_threads]
           nthr  == IF IsBinding(prog) THEN SetThreads(num_threads) ELSE nthreads_var
       IN  IF IsBinding(prog) /\ InvalidRange(start, end)
             THEN /\ rg' = [frame EXCEPT !.pc = "thrown", !.err = "invalid_argument"]
                  /\ UNCHANGED <<nthreads_var, results, next_iter, wk, assigned, writers>>
           ELSE IF ~StoresResults(fn)
             \* the counting loops: no total, no vector, the team as it is set
             THEN /\ rg' = [frame EXCEPT !.pc = "parallel", !.team = nthr,
                                         !.total = LoopCount(start, end)]
                  /\ next_iter' = 0
                  /\ wk' = [w \in 1 .. nthr |-> WorkerStart]
                  /\ UNCHANGED <<nthreads_var, results, assigned, writers>>
           ELSE IF total < 0
             \* results.resize(total) with total < 0: std::length_error
             THEN /\ rg' = [frame EXCEPT !.pc = "thrown", !.total = total,
                                         !.err = "length_error"]
                  /\ UNCHANGED <<nthreads_var, results, next_iter, wk, assigned, writers>>
           ELSE /\ nthreads_var' = nthr
                /\ rg' = [frame EXCEPT !.pc = "parallel", !.total = total,
                                       !.team = nthr, !.allocated = TRUE]
                /\ results' = [i \in 1 .. total |-> <<>>]
                /\ next_iter' = 0
                /\ wk' = [w \in 1 .. nthr |-> WorkerStart]
                /\ assigned' = [i \in 1 .. total |-> <<>>]
                /\ writers' = [i \in 1 .. total |-> <<>>]
    /\ UNCHANGED <<fd, fdb, mx, prog>>

\* a call with indices far from the limits of long long
rg_call(fn, start, end, num_threads) ==
    RangeCall(fn, start, end, num_threads, Total(start, end))

\* long long, scaled down to IndexBits bits
LLONG_MAX == 2 ^ (IndexBits - 1) - 1
LLONG_MIN == -(2 ^ (IndexBits - 1))
LongLong == LLONG_MIN .. LLONG_MAX

\* whether end - start + 1 leaves long long at one of its two operations
TotalOverflows(start, end) ==
    (end - start) \notin LongLong \/ (end - start + 1) \notin LongLong

\* what const long long total = end - start + 1 can hold: the difference,
\* or after a signed overflow, which is undefined, any long long
Totals(start, end) ==
    IF TotalOverflows(start, end) THEN LongLong ELSE {Total(start, end)}

\* a call with start and end anywhere in long long; after a signed overflow
\* the build can also fault instead of going on with some total
rg_call_limits(fn, start, end, num_threads) ==
    \/ \E total \in Totals(start, end) :
          RangeCall(fn, start, end, num_threads, total)
    \/ /\ rg.pc = "idle"
       /\ fn \in RangeFns(prog)
       /\ num_threads \in ThreadArgs(prog)
       /\ ~(IsBinding(prog) /\ InvalidRange(start, end))
       /\ TotalOverflows(start, end)
       /\ rg' = [RGIdle EXCEPT !.pc = "terminated", !.fn = fn, !.start = start,
                               !.end = end, !.num_threads = num_threads,
                               !.err = "signal"]
       /\ UNCHANGED <<fd, fdb, mx, prog, nthreads_var, results, next_iter, wk,
                      assigned, writers>>

\* thread w asks the schedule for its next chunk, or finds none left and
\* goes to the barrier at the end of the loop; the counting loops are nowait
\* and go on to the atomic update
omp_take_chunk(w) ==
    /\ rg.pc = "parallel"
    /\ w \in DOMAIN wk
    /\ wk[w].st = "ready"
    /\ IF next_iter < rg.total
         THEN LET c == ChunkOf(next_iter, rg.total, Chunk(prog))
              IN  /\ wk' = [wk EXCEPT ![w] = [@ EXCEPT !.st = "run", !.i = c.lo,
                                                       !.hi = c.hi]]
                  /\ next_iter' = c.hi
                  /\ assigned' = [s \in DOMAIN assigned |->
                                    IF s - 1 >= c.lo /\ s - 1 < c.hi
                                      THEN Append(assigned[s], w)
                                    ELSE assigned[s]]
       ELSE /\ wk' = [wk EXCEPT ![w].st = IF StoresResults(rg.fn) THEN "barrier"
                                           ELSE "atomic"]
            /\ UNCHANGED <<next_iter, assigned>>
    /\ UNCHANGED <<fd, fdb, mx, prog, rg, nthreads_var, results, writers>>

\* thread w runs the loop body for its iteration i: n = start + i, the engine,
\* results[i] = fib.get_str(); an exception leaving the body ends the process
omp_iteration(w) ==
    /\ rg.pc = "parallel"
    /\ StoresResults(rg.fn)
    /\ w \in DOMAIN wk
    /\ wk[w].st = "run"
    /\ LET i == wk[w].i
           n == rg.start + i
       IN  IF Engine(prog, n).ok
             THEN /\ results' = [results EXCEPT ![i + 1] = SlotValue(prog, n)]
                  /\ writers' = [writers EXCEPT ![i + 1] = Append(@, w)]
                  /\ wk' = [wk EXCEPT ![w] = IF i + 1 < wk[w].hi
                                               THEN [@ EXCEPT !.i = i + 1]
                                             ELSE [@ EXCEPT !.st = "ready"]]
                  /\ UNCHANGED rg
           ELSE /\ rg' = [rg EXCEPT !.pc = "terminated", !.err = Engine(prog, n).err]
                /\ UNCHANGED <<results, writers, wk>>
    /\ UNCHANGED <<fd, fdb, mx, prog, nthreads_var, next_iter, assigned>>

\* the thread's next iteration of its chunk, or the request for another chunk
NextIteration(t) ==
    IF t.i + 1 < t.hi THEN [t EXCEPT !.st = "run", !.i = t.i + 1]
    ELSE [t EXCEPT !.st = "ready"]

\* thread w runs the body of a counting loop up to the critical section:
\* fib = fibonacci_exact(n), local_count++ (the value goes to std::cout or to
\* a thread-local dummy only); an exception leaving the body ends the process
omp_count_iteration(w) ==
    /\ rg.pc = "parallel"
    /\ ~StoresResults(rg.fn)
    /\ w \in DOMAIN wk
    /\ wk[w].st = "run"
    /\ LET n == rg.start + wk[w].i
           counted == [wk[w] EXCEPT !.local_count = @ + 1]
       IN  IF EngineThrows(prog, n)
             THEN /\ rg' = [rg EXCEPT !.pc = "terminated", !.err = "invalid_argument"]
                  /\ UNCHANGED wk
           ELSE /\ wk' = [wk EXCEPT ![w] = IF HasCritical(rg.fn)
                                               THEN [counted EXCEPT !.st = "lock"]
                                             ELSE NextIteration(counted)]
                /\ UNCHANGED rg
    /\ UNCHANGED <<fd, fdb, mx, prog, nthreads_var, results, next_iter, assigned, writers>>

\* thread w enters #pragma omp critical once no thread is inside
omp_critical_enter(w) ==
    /\ rg.pc = "parallel"
    /\ w \in DOMAIN wk
    /\ wk[w].st = "lock"
    /\ rg.crit = 0
    /\ rg' = [rg EXCEPT !.crit = w]
    /\ wk' = [wk EXCEPT ![w].st = "critical"]
    /\ UNCHANGED <<fd, fdb, mx, prog, nthreads_var, results, next_iter, assigned, writers>>

\* omp_critical_exit that leaves the critical section held
omp_critical_exit_held(w) ==
    /\ rg.pc = "parallel"
    /\ w \in DOMAIN wk
    /\ wk[w].st = "critical"
    /\ wk' = [wk EXCEPT ![w] = NextIteration(@)]
    /\ UNCHANGED <<fd, fdb, mx, prog, rg, nthreads_var, results, next_iter, assigned, writers>>

\* thread w writes its line to std::cout, if n is one it prints, and leaves
\* the critical section
omp_critical_exit(w) ==
    /\ rg.pc = "parallel"
    /\ w \in DOMAIN wk
    /\ wk[w].st = "critical"
    /\ rg' = [rg EXCEPT !.crit = 0]
    /\ wk' = [wk EXCEPT ![w] = NextIteration(@)]
    /\ UNCHANGED <<fd, fdb, mx, prog, nthreads_var, results, next_iter, assigned, writers>>

\* omp_atomic_add without the atomic: the sum is made from the value of
\* total_computed read when the region began
omp_atomic_add_stale(w) ==
    /\ rg.pc = "parallel"
    /\ w \in DOMAIN wk
    /\ wk[w].st = "atomic"
    /\ rg' = [rg EXCEPT !.total_computed = 0 + wk[w].local_count]
    /\ wk' = [wk EXCEPT ![w].st = "barrier"]
    /\ UNCHANGED <<fd, fdb, mx, prog, nthreads_var, results, next_iter, assigned, writers>>

\* #pragma omp atomic: total_computed += local_count
omp_atomic_add(w) ==
    /\ rg.pc = "parallel"
    /\ w \in DOMAIN wk
    /\ wk[w].st = "atomic"
    /\ rg' = [rg EXCEPT !.total_computed = @ + wk[w].local_count]
    /\ wk' = [wk EXCEPT ![w].st = "barrier"]
    /\ UNCHANGED <<fd, fdb, mx, prog, nthreads_var, results, next_iter, assigned, writers>>

\* set_num_threads(n) of the bindings
set_num_threads(n) ==
    /\ rg.pc = "idle"
    /\ IsBinding(prog)
    /\ LET frame == [RGIdle EXCEPT !.fn = "set_num_threads", !.num_threads = n]
       IN  IF n <= 0
             THEN /\ rg' = [frame EXCEPT !.pc = "thrown", !.err = "invalid_argument"]
                  /\ UNCHANGED nthreads_var
           ELSE /\ rg' = [frame EXCEPT !.pc = "returned"]
                /\ nthreads_var' = n
    /\ UNCHANGED <<fd, fdb, mx, prog, results, next_iter, wk, assigned, writers>>

\* get_num_cores() of the bindings: what a call made now returns
get_num_cores == omp_get_max_threads

\* the caller asks for the running job to be cancelled (an interrupt that
\* arrives while the loop runs); the request is recorded, and no statement of
\* the range operations reads the record
request_cancel ==
    /\ rg.pc = "parallel"
    /\ ~rg.cancel
    /\ rg' = [rg EXCEPT !.cancel = TRUE]
    /\ UNCHANGED <<fd, fdb, mx, prog, nthreads_var, results, next_iter, wk, assigned, writers>>

\* omp_join that goes on as soon as one thread is at the barrier
omp_join_first ==
    /\ rg.pc = "parallel"
    /\ \E w \in DOMAIN wk : wk[w].st = "barrier"
    /\ rg' = [rg EXCEPT !.pc = "returned", !.ret = RangeValue(rg.fn, results)]
    /\ UNCHANGED <<fd, fdb, mx, prog, nthreads_var, results, next_iter, wk, assigned, writers>>

\* the barrier that ends the parallel region, then the return of the operation
omp_join ==
    /\ rg.pc = "parallel"
    /\ \A w \in DOMAIN wk : wk[w].st = "barrier"
    /\ rg' = [rg EXCEPT !.pc = "returned", !.ret = RangeValue(rg.fn, results)]
    /\ UNCHANGED <<fd, fdb, mx, prog, nthreads_var, results, next_iter, wk, assigned, writers>>

\* the caller takes the buffer or the exception; the call's objects are gone
rg_end ==
    /\ rg.pc \in {"returned", "thrown"}
    /\ rg' = RGIdle
    /\ results' = <<>>
    /\ next_iter' = 0
    /\ wk' = <<>>
    /\ assigned' = <<>>
    /\ writers' = <<>>
    /\ UNCHANGED <<fd, fdb, mx, prog, nthreads_var>>

----------------------------------------------------------------------------
(* Specifications *)

InitEngines ==
    /\ fd = FDIdle
    /\ fdb = FDIdle
    /\ mx = MXIdle
    /\ prog = "none"
    /\ rg = RGIdle
    /\ nthreads_var = MaxThreads
    /\ results = <<>>
    /\ next_iter = 0
    /\ wk = <<>>
    /\ assigned = <<>>
    /\ writers = <<>>

\* a process starts with nthreads-var at the number of cores
InitRange ==
    /\ fd = FDIdle
    /\ fdb = FDIdle
    /\ mx = MXIdle
    /\ prog \in Programs
    /\ rg = RGIdle
    /\ nthreads_var = MaxThreads
    /\ results = <<>>
    /\ next_iter = 0
    /\ wk = <<>>
    /\ assigned = <<>>
    /\ writers = <<>>

\* the end_n a call is made with: the counting loops, which keep no value,
\* also get one that takes them past their first chunk
Ends(fn) ==
    IF StoresResults(fn) THEN -1 .. MaxEnd
    ELSE (-1 .. MaxCountEnd) \cup {ProgramChunk}

\* the start_n a call is made with
Starts(fn) == IF StoresResults(fn) THEN -1 .. MaxStart ELSE -1 .. 0

NextRange ==
    \/ /\ rg.pc = "idle"
       /\ \E fn \in RangeFns(prog) :
             \E start \in Starts(fn), end \in Ends(fn),
                num_threads \in ThreadArgs(prog) :
                  rg_call(fn, start, end, num_threads)
    \/ /\ rg.pc = "idle"
       /\ \E n \in 0 .. MaxThreads : set_num_threads(n)
    \/ \E w \in DOMAIN wk : omp_take_chunk(w)
    \/ \E w \in DOMAIN wk : omp_iteration(w)
    \/ \E w \in DOMAIN wk : omp_count_iteration(w)
    \/ \E w \in DOMAIN wk : omp_critical_enter(w)
    \/ \E w \in DOMAIN wk : omp_critical_exit(w)
    \/ \E w \in DOMAIN wk : omp_atomic_add(w)
    \/ omp_join
    \/ rg_end

\* range operations of one process, one call at a time
SpecRange == InitRange /\ [][NextRange]_vars

\* a process with the fast-doubling bindings or the fast-doubling program
InitLive ==
    /\ fd = FDIdle
    /\ fdb = FDIdle
    /\ mx = MXIdle
    /\ prog \in {"_fastfib_fd", "fib_stairs_fastdoubling"}
    /\ rg = RGIdle
    /\ nthreads_var = MaxThreads
    /\ results = <<>>
    /\ next_iter = 0
    /\ wk = <<>>
    /\ assigned = <<>>
    /\ writers = <<>>

\* the end a call of the scheduled runs is made with: one index, or enough
\* of them for a second chunk
LiveEnds(fn) ==
    IF StoresResults(fn) THEN {0, MaxLiveEnd} ELSE {0, ProgramChunk}

NextLive ==
    \/ /\ rg.pc = "idle"
       /\ \E fn \in {"fibonacci_range", "compute_fibonacci_range_sum"} :
             \E start \in -1 .. 0, end \in LiveEnds(fn),
                num_threads \in ThreadArgs(prog) :
                  rg_call(fn, start, end, num_threads)
    \/ \E w \in DOMAIN wk : omp_take_chunk(w)
    \/ \E w \in DOMAIN wk : omp_iteration(w)
    \/ \E w \in DOMAIN wk : omp_count_iteration(w)
    \/ \E w \in DOMAIN wk : omp_critical_enter(w)
    \/ \E w \in DOMAIN wk : omp_critical_exit(w)
    \/ \E w \in DOMAIN wk : omp_atomic_add(w)
    \/ omp_join
    \/ rg_end

\* the step thread w takes next, whichever it is
WorkerStep(w) ==
    \/ omp_take_chunk(w)
    \/ omp_iteration(w)
    \/ omp_count_iteration(w)
    \/ omp_critical_enter(w)
    \/ omp_critical_exit(w)
    \/ omp_atomic_add(w)

\* every thread of a team that can take a step takes one in the end, and so
\* does the barrier; the caller is under no obligation to call
FairWorkers ==
    /\ \A w \in 1 .. MaxThreads : WF_vars(WorkerStep(w))
    /\ WF_vars(omp_join)

\* range jobs whose threads are scheduled fairly
SpecLive == InitLive /\ [][NextLive]_vars /\ FairWorkers

\* start and end at and next to the limits of long long and of validation
IndexArgs == {LLONG_MIN, -1, 0, 1, LLONG_MAX - 1, LLONG_MAX}

NextIndex ==
    \/ /\ rg.pc = "idle"
       /\ \E fn \in {"fibonacci_range", "compute_and_store_fibonacci"} :
             \E start \in IndexArgs, end \in IndexArgs,
                num_threads \in ThreadArgs(prog) :
                  rg_call_limits(fn, start, end, num_threads)
    \/ \E w \in DOMAIN wk : omp_take_chunk(w)
    \/ \E w \in DOMAIN wk : omp_iteration(w)
    \/ omp_join
    \/ rg_end

\* range jobs of the fast-doubling bindings and program with indices
\* anywhere in long long
SpecIndex == InitLive /\ [][NextIndex]_vars

NextCancel ==
    \/ NextRange
    \/ request_cancel

\* the same with a cancel request arriving at any moment of a job
SpecCancel == InitRange /\ [][NextCancel]_vars

NextFD ==
    \/ \E entry \in FDEntries, n \in -MaxNeg .. MaxN : fd_call(entry, n)
    \/ \E n \in -MaxNeg .. MaxN : fd_call_helper(n)
    \/ fd_bits
    \/ fd_loop
    \/ fd_return
    \/ fd_end

\* calls of the fast-doubling engine, one at a time
SpecFD == InitEngines /\ [][NextFD]_vars

\* a call that has started runs on to its return
FairFD == WF_vars(fd_bits) /\ WF_vars(fd_loop) /\ WF_vars(fd_return)

\* calls of the fast-doubling engine that are not left half-way
SpecFDFair == InitEngines /\ [][NextFD]_vars /\ FairFD

NextMatrix ==
    \/ \E entry \in MXEntries, n \in -MaxNeg .. MaxN : mx_call(entry, n)
    \/ mx_loop
    \/ mx_end

\* calls of the matrix engine, one at a time
SpecMatrix == InitEngines /\ [][NextMatrix]_vars

\* a process with the fast-doubling bindings loaded
InitShared ==
    /\ fd = FDIdle
    /\ fdb = FDIdle
    /\ mx = MXIdle
    /\ prog = "_fastfib_fd"
    /\ rg = RGIdle
    /\ nthreads_var = MaxThreads
    /\ results = <<>>
    /\ next_iter = 0
    /\ wk = <<>>
    /\ assigned = <<>>
    /\ writers = <<>>

\* the single-value entry points of the bindings
SharedEntries == {"fibonacci_exact_gmp", "fibonacci"}

\* no single-value call is running
EnginesIdle == fd.pc = "idle" /\ fdb.pc = "idle" /\ mx.pc = "idle"

NextShared ==
    \/ /\ rg.pc = "idle"
       /\ \E entry \in SharedEntries, n \in 0 .. MaxSharedN : fd_call(entry, n)
    \/ fd_bits
    \/ fd_loop
    \/ fd_return
    \/ fd_end
    \/ /\ rg.pc = "idle"
       /\ \E n \in 0 .. MaxSharedN : fdb_call("fibonacci_exact_gmp", n)
    \/ fdb_bits
    \/ fdb_loop
    \/ fdb_return
    \/ fdb_end
    \/ /\ rg.pc = "idle"
       /\ \E n \in 0 .. MaxSharedN : mx_call("fib_stairs.fibonacci_exact", n)
    \/ mx_loop
    \/ mx_end
    \/ /\ rg.pc = "idle"
       /\ EnginesIdle
       /\ \E n \in 0 .. MaxThreads : set_num_threads(n)
    \/ /\ rg.pc = "idle"
       /\ EnginesIdle
       /\ \E start \in 0 .. 1, num_threads \in ThreadArgs(prog) :
             rg_call("fibonacci_range", start, 1, num_threads)
    \/ \E w \in DOMAIN wk : omp_take_chunk(w)
    \/ \E w \in DOMAIN wk : omp_iteration(w)
    \/ omp_join
    \/ rg_end

\* single-value calls in two threads at once and a matrix call, interleaved
\* in every order, with thread settings and range calls before and between
SpecShared == InitShared /\ [][NextShared]_vars

----------------------------------------------------------------------------
(* Properties of the fast-doubling engine *)

\* C1: for every n >= 0 the fast-doubling engine returns the pair
\* (F(n), F(n+1)) and the value F(n); compute(0)=0, compute(1)=1,
\* compute(2)=1, compute(10)=55 and compute(n+2) = compute(n+1) + compute(n).
C1_FastDoublingIsFib ==
    (fd.pc = "done" /\ fd.n >= 0) =>
        /\ <<fd.fk, fd.fk1>> = fibonacci_fast_doubling_iterative(fd.n)
        /\ fd.fk = F(fd.n)
        /\ fd.fk1 = F(fd.n + 1)
        /\ fd.entry = "fibonacci_fast_doubling_iterative"
              => fd.ret = << <<F(fd.n), F(fd.n + 1)>> >>
        /\ fd.entry \in {"fibonacci_exact", "fibonacci_exact_gmp"} =>
              /\ fd.ret = <<F(fd.n)>>
              /\ fd.n = 0 => fd.ret = <<0>>
              /\ fd.n = 1 => fd.ret = <<1>>
              /\ fd.n = 2 => fd.ret = <<1>>
              /\ fd.n = 10 => fd.ret = <<55>>
              /\ fibonacci_exact(fd.n + 2).val
                    = fibonacci_exact(fd.n + 1).val + fd.ret[1]
        /\ fd.entry = "fibonacci" => fd.ret = <<get_str(F(fd.n))>>

C1_Witness ==
    /\ fd.pc = "done"
    /\ fd.entry = "fibonacci_exact"
    /\ fd.n = 10
    /\ fd.steps = 4
    /\ fd.ret = <<55>>

\* C7: compute(n) of the fast-doubling engine with n < 0 fails with
\* std::invalid_argument: no value is returned and no doubling step is run.
C7_NegativeComputeThrows ==
    (/\ fd.pc # "idle"
     /\ fd.entry \in {"fibonacci_exact", "fibonacci_exact_gmp", "fibonacci"}
     /\ fd.n < 0) =>
        /\ fd.pc = "thrown"
        /\ fd.err = "invalid_argument"
        /\ fd.ret = <<>>
        /\ fd.steps = 0

C7_Witness ==
    /\ fd.pc = "thrown"
    /\ fd.entry = "fibonacci_exact"
    /\ fd.n = -1
    /\ fd.err = "invalid_argument"

\* C8: compute_pair(k) (fibonacci_fast_doubling_iterative) with k < 0 fails
\* with InvalidArgument and never returns a pair.
C8_NegativePairThrows ==
    (fd.pc \in {"done", "thrown"} /\ fd.n < 0
        /\ fd.entry = "fibonacci_fast_doubling_iterative") =>
        /\ fd.pc = "thrown"
        /\ fd.ret = <<>>

----------------------------------------------------------------------------
(* Properties of the matrix engine *)

\* M^e by e successive multiplications
RECURSIVE MatPowRef(_, _)
MatPowRef(M, e) == IF e = 0 THEN Identity ELSE matrix_mult(MatPowRef(M, e - 1), M)

MXCompute == {"fib_stairs.fibonacci_exact", "matrix_backup.fibonacci_exact_gmp"}

\* C2: for every n >= 0 the matrix engine's fibonacci_exact(n) is F(n): 0, 1, 1
\* for n = 0, 1, 2 without matrix work, for n >= 3 the top-left entry of
\* [[1,1],[1,0]]^(n-1); it equals the linear reference fibonacci_iterative(n).
C2_MatrixIsFib ==
    (mx.pc = "done" /\ mx.n >= 0 /\ mx.entry \in MXCompute) =>
        /\ mx.ret = <<F(mx.n)>>
        /\ mx.ret = <<fibonacci_iterative(mx.n)>>
        /\ mx.ret = <<fibonacci_exact_matrix(mx.n)>>
        /\ mx.n = 0 => mx.ret = <<0>> /\ mx.steps = 0
        /\ mx.n \in {1, 2} => mx.ret = <<1>> /\ mx.steps = 0
        /\ mx.n >= 3 => mx.ret = <<MatPowRef(FibBase, mx.n - 1).a>>

C2_Witness ==
    /\ mx.pc = "done"
    /\ mx.entry = "fib_stairs.fibonacci_exact"
    /\ mx.n = 20
    /\ mx.steps = 5
    /\ mx.ret = <<6765>>
    /\ fibonacci_iterative(20) = 6765

\* C3: for every n >= 0 the fast-doubling engine and the matrix engine return
\* the same integer, and the bindings' fibonacci() the same decimal string.
C3_EnginesAgree ==
    (mx.pc = "done" /\ mx.n >= 0) =>
        /\ mx.entry \in MXCompute => mx.ret = <<fibonacci_exact_gmp(mx.n).val>>
        /\ mx.entry = "matrix_backup.fibonacci"
              => mx.ret = <<get_str(fibonacci_exact_gmp(mx.n).val)>>

C3_Witness ==
    /\ mx.pc = "done"
    /\ mx.entry = "matrix_backup.fibonacci_exact_gmp"
    /\ mx.n = 30
    /\ mx.ret = <<832040>>
    /\ fibonacci_exact_gmp(30) = Returned(832040)

\* C9: the matrix engine's compute (fibonacci_exact of fib_stairs.cpp,
\* fibonacci_exact_gmp of the matrix bindings) with n < 0 fails with
\* InvalidArgument and never returns a number.
C9_NegativeMatrixThrows ==
    (mx.pc \in {"done", "thrown"} /\ mx.entry \in MXCompute /\ mx.n < 0) =>
        /\ mx.pc = "thrown"
        /\ mx.err = "invalid_argument"
        /\ mx.ret = <<>>

----------------------------------------------------------------------------
(* Properties of the range operations *)

\* the number a string of decimal digits denotes
RECURSIVE DecimalValue(_)
DecimalValue(s) ==
    IF s = <<>> THEN 0
    ELSE DecimalValue(SubSeq(s, 1, Len(s) - 1)) * 10
            + (CHOOSE d \in 0 .. 9 : Digit(d) = s[Len(s)])

\* s is the decimal string of v >= 0: digits only, no leading zero, value v
IsDecimalOf(s, v) ==
    /\ Len(s) >= 1
    /\ \A k \in 1 .. Len(s) : \E d \in 0 .. 9 : s[k] = Digit(d)
    /\ Len(s) > 1 => s[1] # "0"
    /\ DecimalValue(s) = v

ValidRequest == StoresResults(rg.fn) /\ 0 <= rg.start /\ rg.start <= rg.end

\* C4: for a valid request (0 <= start <= end) the buffer has exactly
\* end - start + 1 slots from before the first worker starts, and at the
\* return slot i holds the decimal string of F(start + i), whichever worker
\* stored it.
C4_RangeBufferIsFib ==
    /\ (rg.pc \in {"parallel", "returned"} /\ ValidRequest) =>
          /\ rg.allocated
          /\ Len(results) = rg.end - rg.start + 1
    /\ (rg.pc = "returned" /\ ValidRequest) =>
          \A i \in 0 .. rg.end - rg.start :
              /\ IsDecimalOf(results[i + 1], F(rg.start + i))
              /\ results[i + 1] = get_str(F(rg.start + i))

C4_Witness ==
    /\ rg.pc = "returned"
    /\ rg.fn = "fibonacci_range"
    /\ rg.start = 1
    /\ rg.end = 20
    /\ results[1] = <<"1">>
    /\ results[20] = <<"6", "7", "6", "5">>
    /\ writers[1] # writers[20]

\* what one thread running the loop alone, in index order, stores
SerialBuffer(p, start, end) ==
    [i \in 1 .. end - start + 1 |-> SlotValue(p, start + i - 1)]

\* C5: for fixed (start, end) the returned buffer is the same for every
\* worker count and every interleaving of the dynamically pulled chunks: it
\* is the buffer of the serial loop.
C5_BufferIndependentOfWorkers ==
    (rg.pc = "returned" /\ ValidRequest) =>
        /\ results = SerialBuffer(prog, rg.start, rg.end)
        /\ rg.fn \in {"fibonacci_range", "compute_and_store_fibonacci"}
              => rg.ret = SerialBuffer(prog, rg.start, rg.end)

C5_Witness ==
    /\ rg.pc = "returned"
    /\ prog = "_fastfib_fd"
    /\ rg.fn = "fibonacci_range"
    /\ rg.start = 0
    /\ rg.end = 20
    /\ rg.team = 2
    /\ writers[1] = <<2>>
    /\ writers[11] = <<1>>
    /\ writers[21] = <<2>>
    /\ rg.ret = SerialBuffer("_fastfib_fd", 0, 20)

\* C6: during a range job every slot is written exactly once, by exactly one
\* worker: no index is handed to two workers, none is skipped, and a worker
\* writes only the slots of the indices handed to it.
C6_SlotsWrittenOnce ==
    /\ (rg.pc \in {"parallel", "returned", "terminated"} /\ StoresResults(rg.fn)) =>
          /\ DOMAIN writers = 1 .. rg.total
          /\ DOMAIN assigned = 1 .. rg.total
          /\ \A s \in 1 .. rg.total :
                /\ Len(assigned[s]) <= 1
                /\ Len(writers[s]) <= 1
                /\ writers[s] # <<>> => writers[s] = assigned[s]
                /\ writers[s] = <<>> => results[s] = <<>>
                /\ s > next_iter <=> assigned[s] = <<>>
    /\ (rg.pc = "returned" /\ StoresResults(rg.fn)) =>
          \A s \in 1 .. rg.total : Len(writers[s]) = 1 /\ Len(assigned[s]) = 1

C6_Witness ==
    /\ rg.pc = "returned"
    /\ prog = "_fastfib"
    /\ rg.total = 21
    /\ rg.team = 2
    /\ \E s, t \in 1 .. 21 : writers[s] = <<1>> /\ writers[t] = <<2>>

\* C10: fibonacci_range, fibonacci_range_int and fibonacci_array with
\* start < 0, end < 0 or start > end fail with std::invalid_argument before
\* anything else: no buffer, no team, no index computed, nthreads-var as it was.
C10_InvalidRangeThrowsFirst ==
    [][(/\ rg.pc = "idle"
        /\ rg'.pc # "idle"
        /\ IsBinding(prog)
        /\ (rg'.start < 0 \/ rg'.end < 0 \/ rg'.start > rg'.end))
       => (/\ rg'.pc = "thrown"
           /\ rg'.err = "invalid_argument"
           /\ ~rg'.allocated
           /\ rg'.ret = <<>>
           /\ results' = <<>>
           /\ wk' = <<>>
           /\ writers' = <<>>
           /\ assigned' = <<>>
           /\ nthreads_var' = nthreads_var)]_vars

C10_Witness ==
    /\ rg.pc = "thrown"
    /\ rg.fn = "fibonacci_array"
    /\ rg.start = 1
    /\ rg.end = 0
    /\ rg.num_threads = 1
    /\ rg.err = "invalid_argument"
    /\ nthreads_var = MaxThreads
    /\ results = <<>>

\* C11: compute_and_store_fibonacci, compute_fibonacci_range_sum and
\* compute_fibonacci_range_fast of the standalone programs, called with
\* start > end or with a negative index in the range, fail with an
\* invalid-argument error that reaches the caller; such a call never
\* completes normally.
C11_StandaloneInvalidRangeThrows ==
    (/\ ~IsBinding(prog)
     /\ rg.pc \in {"returned", "thrown", "terminated"}
     /\ (rg.start > rg.end \/ rg.start < 0))
    => (rg.pc = "thrown" /\ rg.err = "invalid_argument")

\* the cores of the machine: nthreads-var as the OpenMP runtime starts it
NumCores == MaxThreads

\* C12: fibonacci_range and its variants called with num_threads <= 0 (the
\* default is -1) run with all available parallelism, a team of as many
\* threads as the machine has cores, whatever earlier range calls with an
\* explicit num_threads or set_num_threads calls there were.
C12_NonPositiveCountUsesAllCores ==
    (/\ IsBinding(prog)
     /\ StoresResults(rg.fn)
     /\ rg.pc \in {"parallel", "returned"}
     /\ rg.num_threads <= 0)
    => (rg.team = NumCores /\ DOMAIN wk = 1 .. NumCores)

\* C13: a range operation leaves no state behind: no step of it changes
\* what get_num_cores() returns, the number of available CPU cores, so after
\* fibonacci_range(start, end, k) the answer is as before the call and the
\* next range call finds what the first one found.
C13_RangeLeavesNoState ==
    [][rg'.fn # "set_num_threads" => get_num_cores' = get_num_cores]_vars

\* the indices of the running job whose computation throws
FailingIndices == {n \in rg.start .. rg.end : EngineThrows(prog, n)}

\* C14: when the computation of an index fails during a range job, the call
\* fails with a range-computation error that the caller receives and that
\* names the first failing index; the job neither returns normally nor takes
\* the workers down.
C14_FailingIndexRaisesRangeError ==
    (/\ rg.team > 0
     /\ rg.pc \in {"returned", "thrown", "terminated"}
     /\ FailingIndices # {})
    => (rg.pc = "thrown" /\ rg.err = "RangeComputationError")

----------------------------------------------------------------------------
(* Properties of calls that share a process *)

\* what a single-value call returns when it runs alone
AloneValue(entry, n) ==
    IF entry = "fibonacci" THEN <<get_str(fibonacci_exact_gmp(n).val)>>
    ELSE <<fibonacci_exact_gmp(n).val>>

\* the state of a fast-doubling call is decided by its n and its position
FramePure(f) ==
    /\ f.pc = "loop" =>
          <<f.fk, f.fk1>> = fibonacci_fast_doubling_iterative(f.n \div 2 ^ (f.i + 1))
    /\ f.pc = "done" => f.ret = AloneValue(f.entry, f.n)

\* C15: a single-value call is a pure function of n: it returns the same
\* value whatever calls, range jobs and thread settings came before and
\* whatever single-value calls run in other threads at the same time; the
\* running pair or matrix of a call is never changed by a step of another call.
C15_ComputeIsPure ==
    /\ [](/\ FramePure(fd)
          /\ FramePure(fdb)
          /\ mx.pc = "done" => mx.ret = <<fibonacci_exact_matrix(mx.n)>>
          /\ (fd.n = fdb.n /\ fd.pc = fdb.pc /\ fd.i = fdb.i /\ fd.temp = fdb.temp)
                => (fd.fk = fdb.fk /\ fd.fk1 = fdb.fk1))
    /\ [][/\ fd' # fd => (fdb' = fdb /\ mx' = mx)
          /\ fdb' # fdb => (fd' = fd /\ mx' = mx)
          /\ mx' # mx => (fd' = fd /\ fdb' = fdb)
          /\ (rg' # rg \/ nthreads_var' # nthreads_var \/ wk' # wk)
                => (fd' = fd /\ fdb' = fdb /\ mx' = mx)]_vars

C15_Witness ==
    /\ fd.pc = "done"
    /\ fd.entry = "fibonacci"
    /\ fd.n = 3
    /\ fd.ret = << <<"2">> >>
    /\ fdb.pc = "loop"
    /\ fdb.n = 3
    /\ fdb.i = 0
    /\ <<fdb.fk, fdb.fk1>> = <<1, 1>>
    /\ mx.pc = "loop"
    /\ rg.pc = "idle"
    /\ nthreads_var = 1

----------------------------------------------------------------------------
(* Properties of fibonacci_digit_count and of the loops of the engines *)

\* C16: fibonacci_digit_count(n) returns the exact number of decimal digits
\* of F(n) for n >= 1, returns 1 for n = 0 and fails with
\* std::invalid_argument for n < 0; the count is that of the exactly
\* computed F(n), never an estimate.
C16_DigitCountExact ==
    (fd.entry = "fibonacci_digit_count" /\ fd.pc \in {"done", "thrown"}) =>
        IF fd.n < 0
          THEN fd.pc = "thrown" /\ fd.err = "invalid_argument"
        ELSE /\ fd.pc = "done"
             /\ fd.fk = F(fd.n)
             /\ fd.ret = <<Len(get_str(F(fd.n)))>>

\* C17: a running range job can be cancelled: once the cancel request is
\* given no worker starts the computation of a further index, while the
\* computations already started run to their end.
C17_CancelStopsNewIndices ==
    [][rg.cancel =>
          \A w \in DOMAIN wk \cap DOMAIN wk' :
              wk'[w].st = "run" => (wk[w].st = "run" /\ wk'[w].i = wk[w].i)]_vars

\* C18: in fibonacci_fast_doubling_iterative with n >= 1 and bit length L
\* the running pair is (F(0), F(1)) before the first iteration and
\* (F(k), F(k+1)) with k = n div 2^i after the iteration for bit position i,
\* i going from L-1 down to 0; an iteration computes f2k = F(2k) and
\* f2k1 = F(2k+1) from the pair of k and goes on to 2k or 2k+1 as bit i says.
C18_DoublingLoopInvariant ==
    (fd.pc = "loop" /\ fd.n >= 1) =>
        LET L == fd.bit_length
            k == fd.n \div 2 ^ (fd.i + 1)
        IN  /\ 2 ^ (L - 1) <= fd.n /\ fd.n < 2 ^ L
            /\ fd.i \in -1 .. L - 1
            /\ fd.steps = L - 1 - fd.i
            /\ fd.i = L - 1 => (k = 0 /\ <<fd.fk, fd.fk1>> = <<0, 1>>)
            /\ <<fd.fk, fd.fk1>> = <<F(k), F(k + 1)>>
            /\ fd.i >= 0 =>
                  /\ FDStep(fd.fk, fd.fk1, 0) = <<F(2 * k), F(2 * k + 1)>>
                  /\ FDStep(fd.fk, fd.fk1, 1) = <<F(2 * k + 1), F(2 * k + 2)>>
                  /\ fd.n \div 2 ^ fd.i \in {2 * k, 2 * k + 1}

C18_Witness ==
    /\ fd.pc = "loop"
    /\ fd.entry = "fibonacci_fast_doubling_iterative"
    /\ fd.n = 10
    /\ fd.bit_length = 4
    /\ fd.i = 1
    /\ fd.steps = 2
    /\ <<fd.fk, fd.fk1>> = <<1, 2>>

\* the exponent matrix_pow was called with
MXExponent == IF mx.entry = "matrix_pow" THEN mx.n ELSE mx.n - 1

\* C19: in matrix_pow(M, e) with e >= 0, at every test of the loop condition
\* result * base^r = M^e for the exponent r still to do, result having
\* started as the identity and base being M^(2^j) after j squarings; the
\* function returns M^e, which for M = [[1,1],[1,0]] and e >= 1 is
\* [[F(e+1), F(e)], [F(e), F(e-1)]], and matrix_pow(M, 0) is the identity.
C19_MatrixPowInvariant ==
    /\ (mx.pc = "loop" /\ MXExponent >= 0) =>
          /\ mx.e >= 0
          /\ matrix_mult(mx.result, MatPowRef(mx.base, mx.e))
                = MatPowRef(FibBase, MXExponent)
          /\ mx.base = MatPowRef(FibBase, 2 ^ mx.steps)
          /\ mx.steps = 0 => mx.result = [a |-> 1, b |-> 0, c |-> 0, d |-> 1]
    /\ (mx.pc = "done" /\ mx.entry = "matrix_pow" /\ mx.n >= 0) =>
          /\ mx.ret = <<MatPowRef(FibBase, mx.n)>>
          /\ mx.n >= 1 =>
                mx.ret = <<[a |-> F(mx.n + 1), b |-> F(mx.n),
                            c |-> F(mx.n), d |-> F(mx.n - 1)]>>
          /\ mx.n = 0 => mx.ret = <<[a |-> 1, b |-> 0, c |-> 0, d |-> 1]>>

C19_Witness ==
    /\ mx.pc = "loop"
    /\ mx.entry = "matrix_pow"
    /\ mx.n = 13
    /\ mx.e = 3
    /\ mx.steps = 2
    /\ mx.result = [a |-> 1, b |-> 1, c |-> 1, d |-> 0]
    /\ mx.base = [a |-> 5, b |-> 3, c |-> 3, d |-> 2]

----------------------------------------------------------------------------
(* Properties of the workers' waiting *)

\* thread w holds an index and cannot go on until another thread leaves the
\* critical section
WaitsForWorker(w) == wk[w].st = "lock" /\ rg.crit # 0

----------------------------------------------------------------------------
(* Properties of the counter, of the join and of termination *)

RECURSIVE SumLocalCounts(_)
\* local_count of the threads 1 .. w, added up
SumLocalCounts(w) == IF w = 0 THEN 0 ELSE SumLocalCounts(w - 1) + wk[w].local_count

\* C21: in compute_fibonacci_range_sum and compute_fibonacci_range_fast with
\* start <= end, total_computed is end - start + 1 when it is read after the
\* parallel region, for every interleaving and every team: each thread has
\* added its local_count once, atomically, and no addition is lost.
C21_TotalComputedIsExact ==
    /\ (rg.pc = "returned" /\ ~StoresResults(rg.fn) /\ rg.fn # "set_num_threads"
          /\ rg.start <= rg.end) =>
          /\ rg.total_computed = rg.end - rg.start + 1
          /\ rg.total_computed = SumLocalCounts(rg.team)
          /\ \A w \in DOMAIN wk : wk[w].st = "barrier"
    /\ (rg.pc = "parallel" /\ ~StoresResults(rg.fn)) =>
          \* what has been added so far is the count of the threads past the update
          rg.total_computed
            = SumLocalCounts(rg.team)
                - (LET RECURSIVE Pending(_)
                       Pending(w) ==
                           IF w = 0 THEN 0
                           ELSE Pending(w - 1)
                                  + (IF wk[w].st = "barrier" THEN 0 ELSE wk[w].local_count)
                   IN  Pending(rg.team))

C21_Witness ==
    /\ rg.pc = "returned"
    /\ rg.fn = "compute_fibonacci_range_fast"
    /\ rg.start = 0
    /\ rg.end = 100
    /\ rg.team = 2
    /\ wk[1].local_count = 1
    /\ wk[2].local_count = 100
    /\ rg.total_computed = 101

\* C22: a range operation hands its buffer to the caller only after the
\* join: when fibonacci_range or compute_and_store_fibonacci returns, every
\* thread of the team is past the loop, each of the end - start + 1 slots
\* holds the value stored in it, what is returned is made from those slots,
\* and no thread can write a slot any more.
C22_BufferHandedOverAfterJoin ==
    (rg.pc = "returned" /\ StoresResults(rg.fn)) =>
        /\ DOMAIN wk = 1 .. rg.team
        /\ \A w \in DOMAIN wk :
              /\ wk[w].st = "barrier"
              /\ ~ENABLED omp_iteration(w)
              /\ ~ENABLED omp_take_chunk(w)
        /\ next_iter = rg.total
        /\ Len(results) = rg.end - rg.start + 1
        /\ \A s \in 1 .. Len(results) : results[s] # <<>> /\ Len(writers[s]) = 1
        /\ rg.ret = RangeValue(rg.fn, results)

C22_Witness ==
    /\ rg.pc = "returned"
    /\ prog = "_fastfib_fd"
    /\ rg.fn = "fibonacci_range_int"
    /\ rg.start = 0
    /\ rg.end = 12
    /\ rg.team = 2
    /\ writers[1] = <<1>>
    /\ writers[13] = <<2>>
    /\ rg.ret[13] = 144

\* thread w of the running job is held at the critical section
HeldAtLock(w) == rg.pc = "parallel" /\ w \in DOMAIN wk /\ wk[w].st = "lock"

\* C23: for every valid range and every team of one thread or more, with
\* the threads scheduled fairly a range job finishes: every index of
\* start .. end is taken and computed, no thread stays blocked for ever, and
\* the call returns.
C23_RangeJobFinishes ==
    /\ (rg.pc = "parallel" /\ 0 <= rg.start /\ rg.start <= rg.end)
          ~> (/\ rg.pc = "returned"
              /\ next_iter = rg.end - rg.start + 1
              /\ \A w \in DOMAIN wk : wk[w].st = "barrier")
    /\ \A w \in 1 .. MaxThreads : HeldAtLock(w) ~> ~HeldAtLock(w)

C23_Witness ==
    /\ rg.pc = "returned"
    /\ rg.fn = "compute_fibonacci_range_sum"
    /\ rg.start = 0
    /\ rg.end = 100
    /\ rg.team = 2
    /\ wk[1].local_count = 100
    /\ wk[2].local_count = 1
    /\ rg.total_computed = 101

\* a call of the iterative engine itself, with an index it is defined for
FDIterativeCall ==
    fd.entry = "fibonacci_fast_doubling_iterative" /\ fd.n >= 0

\* C24: fibonacci_fast_doubling_iterative(n) terminates for every n >= 0,
\* after exactly L doubling steps where L is the bit length of n (no step
\* for n = 0, at most 63 for a 64-bit index); each step works on the pair
\* the step before it left and none starts again from (0, 1).
C24_IterativeTerminatesInBitLengthSteps ==
    /\ (FDIterativeCall /\ fd.pc \in {"bits", "loop", "exit"})
          ~> (FDIterativeCall /\ fd.pc = "done")
    /\ [](FDIterativeCall /\ fd.pc \in {"exit", "done"} =>
             /\ fd.steps <= 63
             /\ fd.n = 0 => fd.steps = 0
             /\ fd.n >= 1 => (2 ^ (fd.steps - 1) <= fd.n /\ fd.n < 2 ^ fd.steps))
    /\ [](FDIterativeCall /\ fd.pc = "loop" /\ fd.steps >= 1 =>
             <<fd.fk, fd.fk1>> # <<0, 1>>)
    /\ [][(FDIterativeCall /\ fd.pc = "loop" /\ fd.i >= 0) =>
             /\ fd'.steps = fd.steps + 1
             /\ fd'.i = fd.i - 1
             /\ <<fd'.fk, fd'.fk1>> = FDStep(fd.fk, fd.fk1, (fd.n \div 2 ^ fd.i) % 2)]_vars

C24_Witness ==
    /\ fd.pc = "done"
    /\ fd.entry = "fibonacci_fast_doubling_iterative"
    /\ fd.n = 21
    /\ fd.steps = 5
    /\ fd.ret = << <<F(21), F(22)>> >>

\* C25: for every n >= 0 the recursive fibonacci_fast_doubling_helper(n)
\* and the iterative fibonacci_fast_doubling_iterative(n) return the same
\* pair, and the recursion ends at a depth equal to the bit length of n.
C25_RecursiveEqualsIterative ==
    (fd.pc = "done" /\ fd.entry = "fibonacci_fast_doubling_helper" /\ fd.n >= 0) =>
        /\ fd.ret[1] = fibonacci_fast_doubling_iterative(fd.n)
        /\ fd.ret[1] = <<F(fd.n), F(fd.n + 1)>>
        /\ fd.n = 0 => fd.steps = 0
        /\ fd.n >= 1 => (2 ^ (fd.steps - 1) <= fd.n /\ fd.n < 2 ^ fd.steps)

C25_Witness ==
    /\ fd.pc = "done"
    /\ fd.entry = "fibonacci_fast_doubling_helper"
    /\ fd.n = 13
    /\ fd.steps = 4
    /\ fd.ret = << <<233, 377>> >>
    /\ fibonacci_fast_doubling_iterative(13) = <<233, 377>>

\* C26: in every state of the fast-doubling loop for n >= 0 the running
\* pair satisfies 0 <= fk <= fk1 and fk1 >= 1; hence 2 * fk1 - fk >= 1, and
\* f2k, f2k1 and every value stored in fk or fk1 are non-negative.
C26_RunningPairIsOrdered ==
    (fd.pc \in {"loop", "exit"} /\ fd.n >= 0) =>
        /\ 0 <= fd.fk
        /\ fd.fk <= fd.fk1
        /\ fd.fk1 >= 1
        /\ 2 * fd.fk1 - fd.fk >= 1
        /\ (fd.pc = "loop" /\ fd.i >= 0) =>
              LET f2k  == fd.fk * (2 * fd.fk1 - fd.fk)
                  f2k1 == fd.fk1 * fd.fk1 + fd.fk * fd.fk
              IN  /\ f2k >= 0
                  /\ f2k1 >= 0
                  /\ f2k + f2k1 >= 0
                  /\ f2k <= f2k1
                  /\ f2k1 >= 1

C26_Witness ==
    /\ fd.pc = "loop"
    /\ fd.entry = "fibonacci_exact_gmp"
    /\ fd.n = 12
    /\ fd.i = 0
    /\ fd.steps = 3
    /\ <<fd.fk, fd.fk1>> = <<8, 13>>
    /\ 2 * fd.fk1 - fd.fk = 18

\* C27: for every request that passes validation (0 <= start <= end, both
\* within long long) total = end - start + 1 and every index n = start + i
\* with 0 <= i < total are computed without integer overflow; total is at
\* least 1 and is the number of indices of start .. end.
C27_TotalWithoutOverflow ==
    (/\ rg.pc # "idle"
     /\ StoresResults(rg.fn)
     /\ 0 <= rg.start /\ rg.start <= rg.end /\ rg.end <= LLONG_MAX) =>
        /\ rg.pc \notin {"thrown", "terminated"}
        /\ rg.total >= 1
        /\ rg.total = rg.end - rg.start + 1
        /\ rg.total \in LongLong
        /\ \A w \in DOMAIN wk :
              wk[w].st = "run" => (rg.start + wk[w].i) \in rg.start .. rg.end

====
